---------------------------- MODULE Spec2Model ----------------------------
(***************************************************************************)
(* A model of mindwave.py: the Headset object, its DongleListener thread   *)
(* (run and parse_payload), and the caller-side operations serial_open,    *)
(* serial_close, connect, autoconnect and disconnect.                      *)
(*                                                                         *)
(* Bytes are integers in 0..255.  Python indices are 0-based and kept so:  *)
(* At(p, i) is p[i].  A hex string is the sequence of its characters.      *)
(***************************************************************************)
EXTENDS Integers, Sequences, FiniteSets, TLC

(***************************************************************************)
(* Byte codes (mindwave.py lines 4-18) and status codes (lines 21-23).     *)
(***************************************************************************)
CONNECT == 192
DISCONNECT == 193
AUTOCONNECT == 194
SYNC == 170
EXCODE == 85
POOR_SIGNAL == 2
ATTENTION == 4
MEDITATION == 5
BLINK == 22
HEADSET_CONNECTED == 208
HEADSET_NOT_FOUND == 209
HEADSET_DISCONNECTED == 210
REQUEST_DENIED == 211
STANDBY_SCAN == 212
RAW_VALUE == 128

STATUS_CONNECTED == "connected"
STATUS_SCANNING == "scanning"
STATUS_STANDBY == "standby"

\* Python's None, as a status and as a headset id / handler argument.
None == "None"
NoneId == <<"None">>
\* The argument slots a handler does not take.
NoLevel == -1
NoId == <<"-">>

(***************************************************************************)
(* Bounds of the model.                                                    *)
(***************************************************************************)
MaxListeners == 2
MaxDongles == 2
MaxCallers == 2
MaxOpens == 2
MaxGarbage == 3
MaxRows == 2
MaxPoorRows == 5
MaxStatusRows == 4
MaxSentinel == 2

ListenerIds == 1..MaxListeners
DongleIds == 1..MaxDongles
Callers == 1..MaxCallers

(***************************************************************************)
(* Helpers on byte sequences.                                              *)
(***************************************************************************)
At(p, i) == p[i + 1]

\* p[a:b], Python slicing: clipped to the sequence, never an error.
Slice(p, a, b) ==
  LET hi == IF b > Len(p) THEN Len(p) ELSE b
  IN  IF a >= hi THEN << >> ELSE SubSeq(p, a + 1, hi)

RECURSIVE SumSeq(_)
SumSeq(p) ==
  IF Len(p) = 0 THEN 0
  ELSE IF Len(p) = 1 THEN p[1]
  ELSE LET half == Len(p) \div 2
       IN  SumSeq(SubSeq(p, 1, half)) + SumSeq(SubSeq(p, half + 1, Len(p)))

RECURSIVE Flatten(_)
Flatten(ss) == IF ss = << >> THEN << >> ELSE Head(ss) \o Flatten(Tail(ss))

SeqsUpTo(S, n) == UNION {[1..k -> S] : k \in 0..n}

Prefixes(p) == {SubSeq(p, 1, k) : k \in 0..Len(p)}

HexDigits ==
  <<"0", "1", "2", "3", "4", "5", "6", "7", "8", "9", "a", "b", "c", "d", "e", "f">>

\* bytes.hex(): two lowercase hex digits per byte.
RECURSIVE Hex(_)
Hex(v) ==
  IF v = << >> THEN << >>
  ELSE <<HexDigits[(Head(v) \div 16) + 1], HexDigits[(Head(v) % 16) + 1]>> \o Hex(Tail(v))

(***************************************************************************)
(* parse_payload, one data row at a time.  h is the headset: its fields    *)
(* and the record of the handler invocations made so far.                  *)
(***************************************************************************)
Call(h, name, level, id) ==
  [h EXCEPT !.calls = Append(@, [handler |-> name, level |-> level, id |-> id])]

\* lines 101-108: count EXCODE bytes; an IndexError leaves code = EXCODE.
RECURSIVE ExcodeLoop(_, _, _, _)
ExcodeLoop(p, code, index, excode) ==
  IF code = EXCODE
    THEN IF index < Len(p)
           THEN ExcodeLoop(p, At(p, index), index + 1, excode + 1)
           ELSE [code |-> code, index |-> index, excode |-> excode + 1]
    ELSE [code |-> code, index |-> index, excode |-> excode]

\* PoorSignalRow with the test of the old level dropped: the handlers run on
\* every row on their side of zero.
PoorSignalRowLevel(h, value) ==
  LET h1 == [h EXCEPT !.poor_signal = value]
  IN  IF h1.poor_signal > 0
        THEN Call(h1, "poor_signal", h1.poor_signal, NoId)
        ELSE Call(h1, "good_signal", h1.poor_signal, NoId)

\* PoorSignalRow with the poor-signal handlers run on every change to a
\* non-zero level.
PoorSignalRowChange(h, value) ==
  LET old_poor_signal == h.poor_signal
      h1 == [h EXCEPT !.poor_signal = value]
  IN  IF h1.poor_signal > 0
        THEN IF old_poor_signal # h1.poor_signal
               THEN Call(h1, "poor_signal", h1.poor_signal, NoId)
               ELSE h1
        ELSE IF old_poor_signal > 0
               THEN Call(h1, "good_signal", h1.poor_signal, NoId)
               ELSE h1

\* lines 118-129
PoorSignalRow(h, value) ==
  LET old_poor_signal == h.poor_signal
      h1 == [h EXCEPT !.poor_signal = value]
  IN  IF h1.poor_signal > 0
        THEN IF old_poor_signal = 0
               THEN Call(h1, "poor_signal", h1.poor_signal, NoId)
               ELSE h1
        ELSE IF old_poor_signal > 0
               THEN Call(h1, "good_signal", h1.poor_signal, NoId)
               ELSE h1

\* AttentionRow with the handlers run on a change of the value only.
AttentionRowEdge(h, value) ==
  IF h.attention = value THEN h
  ELSE Call([h EXCEPT !.attention = value], "attention", value, NoId)

\* lines 130-134
AttentionRow(h, value) ==
  Call([h EXCEPT !.attention = value], "attention", value, NoId)

\* lines 135-139
MeditationRow(h, value) ==
  Call([h EXCEPT !.meditation = value], "meditation", value, NoId)

\* lines 140-144
BlinkRow(h, value) ==
  Call([h EXCEPT !.blink = value], "blink", value, NoId)

\* lines 118-144: the single-byte codes; any other code has no effect.
SingleByteRow(h, code, value) ==
  IF code = POOR_SIGNAL THEN PoorSignalRow(h, value)
  ELSE IF code = ATTENTION THEN AttentionRow(h, value)
  ELSE IF code = MEDITATION THEN MeditationRow(h, value)
  ELSE IF code = BLINK THEN BlinkRow(h, value)
  ELSE h

\* RawSample with the sign test off by one.
RawSampleOffByOne(v0, v1) ==
  LET raw == v0 * 256 + v1
  IN  IF raw > 32768 THEN raw - 65536 ELSE raw

\* lines 159-161: the signed 16-bit big-endian sample.
RawSample(v0, v1) ==
  LET raw == v0 * 256 + v1
  IN  IF raw >= 32768 THEN raw - 65536 ELSE raw

\* line 159: value[0] and value[1] raise IndexError on fewer than 2 bytes.
RawValueRaises(value) == Len(value) < 2

\* lines 158-164
RawValueRow(h, value) ==
  LET raw == RawSample(At(value, 0), At(value, 1))
  IN  Call([h EXCEPT !.raw_value = raw], "raw_value", raw, NoId)

\* HeadsetConnectedRow with run_handlers ignored.
HeadsetConnectedRowLevel(h, value) ==
  Call([h EXCEPT !.status = STATUS_CONNECTED, !.headset_id = Hex(value)],
       "headset_connected", NoLevel, NoId)

\* lines 165-172
HeadsetConnectedRow(h, value) ==
  LET run_handlers == h.status # STATUS_CONNECTED
      h1 == [h EXCEPT !.status = STATUS_CONNECTED, !.headset_id = Hex(value)]
  IN  IF run_handlers THEN Call(h1, "headset_connected", NoLevel, NoId) ELSE h1

\* lines 173-181
HeadsetNotFoundRow(h, vlength, value) ==
  IF vlength > 0
    THEN Call(h, "headset_notfound", NoLevel, Hex(value))
    ELSE Call(h, "headset_notfound", NoLevel, NoneId)

\* HeadsetDisconnectedRow with the status set back to standby.
HeadsetDisconnectedRowStandby(h, value) ==
  Call([h EXCEPT !.status = STATUS_STANDBY], "headset_disconnected", NoLevel, Hex(value))

\* lines 182-186
HeadsetDisconnectedRow(h, value) ==
  Call(h, "headset_disconnected", NoLevel, Hex(value))

\* lines 187-190
RequestDeniedRow(h) == Call(h, "request_denied", NoLevel, NoId)

\* lines 193-197: byte = value[0], None on IndexError; `if byte:`.
StandbyScanByteTruthy(value) == Len(value) > 0 /\ At(value, 0) # 0

\* StandbyScanRow with run_handlers ignored.
StandbyScanRowLevel(h, value) ==
  IF StandbyScanByteTruthy(value)
    THEN Call([h EXCEPT !.status = STATUS_SCANNING], "scanning", NoLevel, NoId)
    ELSE Call([h EXCEPT !.status = STATUS_STANDBY], "standby", NoLevel, NoId)

\* lines 191-208
StandbyScanRow(h, value) ==
  IF StandbyScanByteTruthy(value)
    THEN LET run_handlers == h.status # STATUS_SCANNING
             h1 == [h EXCEPT !.status = STATUS_SCANNING]
         IN  IF run_handlers THEN Call(h1, "scanning", NoLevel, NoId) ELSE h1
    ELSE LET run_handlers == h.status # STATUS_STANDBY
             h1 == [h EXCEPT !.status = STATUS_STANDBY]
         IN  IF run_handlers THEN Call(h1, "standby", NoLevel, NoId) ELSE h1

\* lines 165-208: the if/elif chain that follows the RAW_VALUE branch.
StatusRow(h, code, vlength, value) ==
  IF code = HEADSET_CONNECTED THEN HeadsetConnectedRow(h, value)
  ELSE IF code = HEADSET_NOT_FOUND THEN HeadsetNotFoundRow(h, vlength, value)
  ELSE IF code = HEADSET_DISCONNECTED THEN HeadsetDisconnectedRow(h, value)
  ELSE IF code = REQUEST_DENIED THEN RequestDeniedRow(h)
  ELSE IF code = STANDBY_SCAN THEN StandbyScanRow(h, value)
  ELSE h

\* line 153: value = payload[index:index+vlength], a slice: it is shorter than
\* vlength when the payload ends early, and that is no error.
MultiByteValue(p, index, vlength) == Slice(p, index, index + vlength)

\* lines 153-208: a multi-byte row, its vlength byte already read; index is the
\* position of the first value byte.
MultiByteRow(h, p, code, vlength, index) ==
  LET value == MultiByteValue(p, index, vlength)
  IN  IF code = RAW_VALUE
        THEN IF RawValueRaises(value)
               THEN [h |-> h, index |-> index + vlength, outcome |-> "raise"]
               ELSE [h |-> RawValueRow(h, value), index |-> index + vlength,
                     outcome |-> "next"]
        ELSE [h |-> StatusRow(h, code, vlength, value), index |-> index + vlength,
              outcome |-> "next"]

\* lines 93-208: one iteration of `while index < len(payload)`, entered with
\* index < Len(p).  outcome: "next" (the loop test is evaluated again), "break"
\* (an IndexError handler left the loop) or "raise" (an IndexError left
\* parse_payload).
ParseRow(h, p, index) ==
  LET ex == ExcodeLoop(p, At(p, index), index + 1, 0)
      code == ex.code
      i == ex.index
  IN  IF i >= Len(p)
        THEN [h |-> h, index |-> i, outcome |-> "break"]
        ELSE IF code < 128
               THEN [h |-> SingleByteRow(h, code, At(p, i)), index |-> i + 1,
                     outcome |-> "next"]
               ELSE MultiByteRow(h, p, code, At(p, i), i + 1)


(***************************************************************************)
(* The framing code of run.                                                *)
(***************************************************************************)
\* lines 75-77: val = sum(payload[:-1]) & 0xff; val = ~val & 0xff
CodeChecksum(p) ==
  LET masked == SumSeq(Slice(p, 0, Len(p) - 1)) % 256
  IN  255 - masked

\* AcceptPacket with the commented-out comparison of line 80 in force.
AcceptPacketVerified(computed, chksum) == computed = chksum

\* lines 80-81: `if True:`, the comparison val == chksum is commented out.
AcceptPacket(computed, chksum) == TRUE

\* LengthSentinel with the re-read of line 66 dropped.
LengthSentinelNone(n) == FALSE

\* line 66: the inner loop reads another length byte while plength == 170.
LengthSentinel(n) == n = 170

\* line 68: `if plength > 170: continue`
LengthRejected(n) == n > 170

(***************************************************************************)
(* The device's side of the wire: packets as the protocol frames them.     *)
(***************************************************************************)
WireChecksum(p) == 255 - (SumSeq(p) % 256)

Frame(p, chk) == <<SYNC, SYNC, Len(p)>> \o p \o <<chk>>

Packet(p) == Frame(p, WireChecksum(p))

\* Complete data rows: every recognised code, an EXCODE prefix, a RAW_VALUE
\* row of one value byte, and one unrecognised code of each width.
Rows ==
  { <<POOR_SIGNAL, 0>>, <<POOR_SIGNAL, 5>>, <<ATTENTION, 50>>, <<MEDITATION, 7>>,
    <<BLINK, 9>>, <<EXCODE, ATTENTION, 50>>, <<99, 7>>,
    <<RAW_VALUE, 2, 127, 255>>, <<RAW_VALUE, 2, 128, 0>>, <<RAW_VALUE, 1, 3>>,
    <<HEADSET_CONNECTED, 2, 18, 52>>, <<HEADSET_CONNECTED, 0>>, <<HEADSET_NOT_FOUND, 0>>,
    <<HEADSET_NOT_FOUND, 2, 18, 52>>, <<HEADSET_DISCONNECTED, 2, 18, 52>>,
    <<REQUEST_DENIED, 0>>, <<STANDBY_SCAN, 1, 1>>, <<STANDBY_SCAN, 1, 0>>,
    <<STANDBY_SCAN, 0>>, <<200, 1, 9>> }

PoorRows == { <<POOR_SIGNAL, 0>>, <<POOR_SIGNAL, 5>>, <<POOR_SIGNAL, 200>> }

StatusRows ==
  { <<STANDBY_SCAN, 1, 1>>, <<STANDBY_SCAN, 1, 0>>, <<STANDBY_SCAN, 0>>,
    <<HEADSET_CONNECTED, 2, 18, 52>>, <<HEADSET_CONNECTED, 2, 171, 205>>,
    <<HEADSET_DISCONNECTED, 2, 18, 52>> }

RowSeqs(R, n) == {Flatten(rs) : rs \in SeqsUpTo(R, n)}

\* Every payload made of at most MaxRows rows, cut at every length.
PayloadInputs == UNION {Prefixes(p) : p \in RowSeqs(Rows, MaxRows)}

Probe == <<ATTENTION, 50>>

ResyncPayloads ==
  { <<ATTENTION, 50>>, <<POOR_SIGNAL, 0>>, <<RAW_VALUE, 2, 128, 0>>, <<RAW_VALUE, 1, 3>> }

GarbageBytes == {0, 1, SYNC, 255}

ChecksumBytes == {0, SYNC, 255}

LengthBytes == {0, 2, 169, 171, 255}

Zeros(n) == [i \in 1..n |-> 0]

Sentinels(k) == [i \in 1..k |-> 170]

\* packets: the payloads of the well-formed packets the stream was built from.
ResyncStreams ==
  { [stream |-> Packet(p1) \o g \o Packet(p2), packets |-> <<p1, p2>>] :
      p1 \in ResyncPayloads, p2 \in ResyncPayloads,
      g \in SeqsUpTo(GarbageBytes, MaxGarbage) }

PayloadStreams ==
  { [stream |-> Packet(p) \o Packet(Probe), packets |-> <<p, Probe>>] :
      p \in PayloadInputs }

PoorStreams ==
  { [stream |-> Packet(p), packets |-> <<p>>] : p \in RowSeqs(PoorRows, MaxPoorRows) }

StatusStreams ==
  { [stream |-> Packet(p), packets |-> <<p>>] :
      p \in RowSeqs(StatusRows, MaxStatusRows) }

ChecksumStreams ==
  { [stream |-> Frame(p, c) \o Packet(Probe), packets |-> <<Probe>>] :
      p \in Rows, c \in ChecksumBytes }

LengthStreams ==
  { [stream |-> <<SYNC, SYNC>> \o Sentinels(k) \o <<n>>
                  \o Zeros(IF n < 170 THEN n ELSE 0) \o <<255>> \o Packet(Probe),
     packets |-> <<Probe>>] :
      k \in 0..MaxSentinel, n \in LengthBytes }

StreamInputs ==
  ResyncStreams \cup PayloadStreams \cup PoorStreams \cup StatusStreams
    \cup ChecksumStreams \cup LengthStreams

(***************************************************************************)
(* State.                                                                  *)
(***************************************************************************)
VARIABLES
  headset_id, poor_signal, attention, meditation, blink, raw_value, status,
  dongle,      \* self.dongle: a dongle id, or 0 for None
  listener,    \* self.listener: a listener id, or 0 for None
  calls,       \* the handler invocations made so far, in order
  is_open,     \* per serial.Serial object: is it open
  rtscts,      \* per serial.Serial object: its rtscts setting
  lastwrite,   \* the bytes of the last write to the device
  stream,      \* the bytes the device has sent and no read has consumed yet
  packets,     \* the payloads of the well-formed packets of the stream
  lpc,         \* per listener: its position in run
  ls,          \* per listener: run's local s
  plength,     \* per listener: run's local plength
  payload,     \* per listener: run's local payload
  index,       \* per listener: parse_payload's local index
  parsed,      \* the payloads passed to parse_payload so far, in order
  val,         \* per listener: run's local val
  hunted,      \* per listener: the bytes read since it last began to look for SYNC SYNC
  napplied,    \* per serial.Serial object: how many apply_settings calls it took
  ndongles,    \* how many serial.Serial objects were constructed
  cpc,         \* per caller thread: its position in serial_open
  nopens       \* how many serial_open calls the caller threads made

hsVars == <<headset_id, poor_signal, attention, meditation, blink, raw_value, status, calls>>
refVars == <<dongle, listener>>
devVars == <<is_open, rtscts, lastwrite, ndongles, napplied>>
inVars == <<stream, packets>>
lVars == <<lpc, ls, plength, payload, index, parsed, val, hunted>>
cVars == <<cpc, nopens>>
vars == <<hsVars, refVars, devVars, inVars, lVars, cVars>>

Hs ==
  [headset_id |-> headset_id, poor_signal |-> poor_signal, attention |-> attention,
   meditation |-> meditation, blink |-> blink, raw_value |-> raw_value,
   status |-> status, calls |-> calls]

SetHs(h) ==
  /\ headset_id' = h.headset_id
  /\ poor_signal' = h.poor_signal
  /\ attention' = h.attention
  /\ meditation' = h.meditation
  /\ blink' = h.blink
  /\ raw_value' = h.raw_value
  /\ status' = h.status
  /\ calls' = h.calls

\* Thread.isAlive(): started and run() not yet left.
IsAlive(l) == lpc[l] \notin {"none", "created", "stopped", "crashed"}

\* The positions of run at which the thread is inside s.read.
ReadPcs == {"read1", "read2", "plength", "payload", "chksum"}

(***************************************************************************)
(* Headset.__init__ (lines 210-240), without the serial_open it may make.  *)
(***************************************************************************)
InitHeadset ==
  /\ headset_id = NoneId
  /\ poor_signal = 255
  /\ attention = 0
  /\ meditation = 0
  /\ blink = 0
  /\ raw_value = 0
  /\ status = None
  /\ calls = << >>
  /\ lastwrite = << >>
  /\ parsed = << >>
  /\ ls = [l \in ListenerIds |-> 0]
  /\ plength = [l \in ListenerIds |-> 0]
  /\ payload = [l \in ListenerIds |-> << >>]
  /\ index = [l \in ListenerIds |-> 0]
  /\ cpc = [c \in Callers |-> "idle"]
  /\ rtscts = [d \in DongleIds |-> FALSE]
  /\ napplied = [d \in DongleIds |-> 0]
  /\ val = [l \in ListenerIds |-> 0]
  /\ hunted = [l \in ListenerIds |-> << >>]

\* The state serial_open leaves when __init__ calls it (open_serial=True): the
\* dongle is open and the listener thread is started.
InitOpened ==
  /\ InitHeadset
  /\ dongle = 1
  /\ listener = 1
  /\ is_open = [d \in DongleIds |-> d = 1]
  /\ ndongles = 1
  /\ lpc = [l \in ListenerIds |-> IF l = 1 THEN "run" ELSE "none"]
  /\ nopens = 0

(***************************************************************************)
(* DongleListener.run, one action per blocking call.                       *)
(***************************************************************************)
\* lines 41-44: s = self.headset.dongle; s.write(DISCONNECT).  A write to a
\* closed port raises and ends the thread.
RunWrite(l) ==
  /\ lpc[l] = "run"
  /\ ls' = [ls EXCEPT ![l] = dongle]
  /\ IF is_open[dongle]
       THEN /\ lastwrite' = <<DISCONNECT>>
            /\ lpc' = [lpc EXCEPT ![l] = "toggle1"]
       ELSE /\ lastwrite' = lastwrite
            /\ lpc' = [lpc EXCEPT ![l] = "crashed"]
  /\ UNCHANGED <<hsVars, refVars, is_open, rtscts, ndongles, inVars, plength, payload,
                 index, parsed, cVars, napplied, val, hunted>>

\* RunToggle with range(1): one toggle, and then the reads.
RunToggleOnce(l) ==
  /\ lpc[l] \in {"toggle1", "toggle2"}
  /\ rtscts' = [rtscts EXCEPT ![ls[l]] = ~@]
  /\ napplied' = [napplied EXCEPT ![ls[l]] = @ + 1]
  /\ lpc' = [lpc EXCEPT ![l] = "read1"]
  /\ UNCHANGED <<hsVars, refVars, is_open, lastwrite, ndongles, inVars, ls, plength,
                 payload, index, parsed, cVars, val, hunted>>

\* lines 45-55: one iteration of `for i in range(2)`.
RunToggle(l) ==
  /\ lpc[l] \in {"toggle1", "toggle2"}
  /\ rtscts' = [rtscts EXCEPT ![ls[l]] = ~@]
  /\ napplied' = [napplied EXCEPT ![ls[l]] = @ + 1]
  /\ lpc' = [lpc EXCEPT ![l] = IF lpc[l] = "toggle1" THEN "toggle2" ELSE "read1"]
  /\ UNCHANGED <<hsVars, refVars, is_open, lastwrite, ndongles, inVars, ls, plength,
                 payload, index, parsed, cVars, val, hunted>>

\* s.read(n) returns once n bytes have arrived.
CanRead(l, n) == is_open[ls[l]] /\ Len(stream) >= n

\* ReadFirst with the test of first_byte dropped: the second read is always made.
ReadFirstAlways(l) ==
  /\ lpc[l] = "read1"
  /\ CanRead(l, 1)
  /\ stream' = Tail(stream)
  /\ lpc' = [lpc EXCEPT ![l] = "read2"]
  /\ hunted' = [hunted EXCEPT ![l] = Append(@, Head(stream))]
  /\ UNCHANGED <<hsVars, refVars, devVars, packets, ls, plength, payload, index,
                 parsed, cVars, val>>

\* line 60: first_byte = s.read(1)
ReadFirst(l) ==
  /\ lpc[l] = "read1"
  /\ CanRead(l, 1)
  /\ stream' = Tail(stream)
  /\ lpc' = [lpc EXCEPT ![l] = IF Head(stream) = SYNC THEN "read2" ELSE "read1"]
  /\ hunted' = [hunted EXCEPT ![l] = Append(@, Head(stream))]
  /\ UNCHANGED <<hsVars, refVars, devVars, packets, ls, plength, payload, index,
                 parsed, cVars, val>>

\* line 61: `and s.read(1) == SYNC`
ReadSecond(l) ==
  /\ lpc[l] = "read2"
  /\ CanRead(l, 1)
  /\ stream' = Tail(stream)
  /\ lpc' = [lpc EXCEPT ![l] = IF Head(stream) = SYNC THEN "plength" ELSE "read1"]
  /\ hunted' = [hunted EXCEPT ![l] = Append(@, Head(stream))]
  /\ UNCHANGED <<hsVars, refVars, devVars, packets, ls, plength, payload, index,
                 parsed, cVars, val>>

\* lines 63-69: one length byte.
ReadLength(l) ==
  /\ lpc[l] = "plength"
  /\ CanRead(l, 1)
  /\ stream' = Tail(stream)
  /\ plength' = [plength EXCEPT ![l] = Head(stream)]
  /\ hunted' = [hunted EXCEPT ![l] = << >>]
  /\ lpc' = [lpc EXCEPT ![l] =
               IF LengthSentinel(Head(stream)) THEN "plength"
               ELSE IF LengthRejected(Head(stream)) THEN "read1"
               ELSE "payload"]
  /\ UNCHANGED <<hsVars, refVars, devVars, packets, ls, payload, index, parsed,
                 cVars, val>>

\* line 72: payload = s.read(plength)
ReadPayload(l) ==
  /\ lpc[l] = "payload"
  /\ CanRead(l, plength[l])
  /\ payload' = [payload EXCEPT ![l] = Slice(stream, 0, plength[l])]
  /\ stream' = Slice(stream, plength[l], Len(stream))
  /\ lpc' = [lpc EXCEPT ![l] = "chksum"]
  /\ UNCHANGED <<hsVars, refVars, devVars, packets, ls, plength, index, parsed,
                 cVars, val, hunted>>

\* lines 75-82: the checksum byte, and the call of parse_payload (line 91).
ReadChecksum(l) ==
  /\ lpc[l] = "chksum"
  /\ CanRead(l, 1)
  /\ stream' = Tail(stream)
  /\ val' = [val EXCEPT ![l] = CodeChecksum(payload[l])]
  /\ IF AcceptPacket(val'[l], Head(stream))
       THEN /\ parsed' = Append(parsed, payload[l])
            /\ index' = [index EXCEPT ![l] = 0]
            /\ lpc' = [lpc EXCEPT ![l] = "parse"]
       ELSE /\ UNCHANGED <<parsed, index>>
            /\ lpc' = [lpc EXCEPT ![l] = "read1"]
  /\ UNCHANGED <<hsVars, refVars, devVars, packets, ls, plength, payload, cVars, hunted>>

\* lines 92-208: one data row.  An IndexError raised by the RAW_VALUE branch is
\* caught neither in parse_payload nor in run (lines 83-87 catch select.error,
\* OSError and SerialException): it ends the thread.
ParseRowStep(l) ==
  /\ lpc[l] = "parse"
  /\ index[l] < Len(payload[l])
  /\ LET r == ParseRow(Hs, payload[l], index[l])
     IN  /\ SetHs(r.h)
         /\ index' = [index EXCEPT ![l] = r.index]
         /\ lpc' = [lpc EXCEPT ![l] =
                      IF r.outcome = "next" THEN "parse"
                      ELSE IF r.outcome = "break" THEN "read1"
                      ELSE "crashed"]
  /\ UNCHANGED <<refVars, devVars, inVars, ls, plength, payload, parsed, cVars, val, hunted>>

\* line 92: the loop test fails, parse_payload returns, run reads again.
ParseReturn(l) ==
  /\ lpc[l] = "parse"
  /\ index[l] >= Len(payload[l])
  /\ lpc' = [lpc EXCEPT ![l] = "read1"]
  /\ UNCHANGED <<hsVars, refVars, devVars, inVars, ls, plength, payload, index, parsed,
                 cVars, val, hunted>>

Listen(l) ==
  \/ RunWrite(l)
  \/ RunToggle(l)
  \/ ReadFirst(l)
  \/ ReadSecond(l)
  \/ ReadLength(l)
  \/ ReadPayload(l)
  \/ ReadChecksum(l)
  \/ ParseRowStep(l)
  \/ ParseReturn(l)

(***************************************************************************)
(* SpecStream: one headset, constructed with open_serial=True, whose       *)
(* device sends one of StreamInputs and then falls silent.                 *)
(***************************************************************************)
InitStream ==
  /\ InitOpened
  /\ \E in \in StreamInputs : stream = in.stream /\ packets = in.packets

NextStream == \E l \in ListenerIds : Listen(l)

SpecStream == InitStream /\ [][NextStream]_vars


(***************************************************************************)
(* The ways a read ends the thread (lines 83-87).                          *)
(***************************************************************************)
\* ReadClosed with `continue` in the place of `break`: the loop goes on.
ReadClosedRetry(l) ==
  /\ lpc[l] \in ReadPcs
  /\ ~is_open[ls[l]]
  /\ lpc' = [lpc EXCEPT ![l] = "read1"]
  /\ UNCHANGED <<hsVars, refVars, devVars, inVars, ls, plength, payload, index, parsed,
                 cVars, val, hunted>>

\* The port was closed (serial_close): the read raises SerialException;
\* line 86 closes s again and line 87 leaves the loop.
ReadClosed(l) ==
  /\ lpc[l] \in ReadPcs
  /\ ~is_open[ls[l]]
  /\ lpc' = [lpc EXCEPT ![l] = "stopped"]
  /\ UNCHANGED <<hsVars, refVars, devVars, inVars, ls, plength, payload, index, parsed,
                 cVars, val, hunted>>

\* The transport fails under an open port: OSError leaves the loop (line 84),
\* SerialException closes s first (lines 86-87).
ReadError(l) ==
  /\ lpc[l] \in ReadPcs
  /\ is_open[ls[l]]
  /\ \E closes \in BOOLEAN :
       is_open' = [is_open EXCEPT ![ls[l]] = IF closes THEN FALSE ELSE @]
  /\ lpc' = [lpc EXCEPT ![l] = "stopped"]
  /\ UNCHANGED <<hsVars, refVars, rtscts, lastwrite, ndongles, inVars, ls, plength,
                 payload, index, parsed, cVars, napplied, val, hunted>>

(***************************************************************************)
(* serial_open (lines 267-277) on a caller thread, one action per line:    *)
(* nothing makes the tests and the assignments atomic.                     *)
(***************************************************************************)
SerialOpenCall(c) ==
  /\ cpc[c] = "idle"
  /\ nopens < MaxOpens
  /\ nopens' = nopens + 1
  /\ cpc' = [cpc EXCEPT ![c] = "so_dongle"]
  /\ UNCHANGED <<hsVars, refVars, devVars, inVars, lVars>>

\* line 270: `if not self.dongle or not self.dongle.isOpen():`
SerialOpenTestDongle(c) ==
  /\ cpc[c] = "so_dongle"
  /\ cpc' = [cpc EXCEPT ![c] =
               IF dongle = 0 \/ ~is_open[dongle] THEN "so_new_dongle" ELSE "so_listener"]
  /\ UNCHANGED <<hsVars, refVars, devVars, inVars, lVars, nopens>>

\* line 271: self.dongle = serial.Serial(self.device, 115200)
SerialOpenNewDongle(c) ==
  /\ cpc[c] = "so_new_dongle"
  /\ ndongles < MaxDongles
  /\ ndongles' = ndongles + 1
  /\ dongle' = ndongles + 1
  /\ is_open' = [is_open EXCEPT ![ndongles + 1] = TRUE]
  /\ cpc' = [cpc EXCEPT ![c] = "so_listener"]
  /\ UNCHANGED <<hsVars, listener, rtscts, lastwrite, inVars, lVars, nopens, napplied>>

\* line 274: `if not self.listener or not self.listener.isAlive():`
SerialOpenTestListener(c) ==
  /\ cpc[c] = "so_listener"
  /\ cpc' = [cpc EXCEPT ![c] =
               IF listener = 0 \/ ~IsAlive(listener) THEN "so_new_listener" ELSE "idle"]
  /\ UNCHANGED <<hsVars, refVars, devVars, inVars, lVars, nopens>>

\* line 275: self.listener = self.DongleListener(self)
SerialOpenNewListener(c) ==
  /\ cpc[c] = "so_new_listener"
  /\ \E l \in ListenerIds :
       /\ lpc[l] = "none"
       /\ \A k \in ListenerIds : k < l => lpc[k] # "none"
       /\ listener' = l
       /\ lpc' = [lpc EXCEPT ![l] = "created"]
  /\ cpc' = [cpc EXCEPT ![c] = "so_start"]
  /\ UNCHANGED <<hsVars, dongle, devVars, inVars, ls, plength, payload, index, parsed,
                 nopens, val, hunted>>

\* lines 276-277: self.listener.start(), on whatever self.listener is now; a
\* thread already started raises RuntimeError.
SerialOpenStart(c) ==
  /\ cpc[c] = "so_start"
  /\ lpc' = [lpc EXCEPT ![listener] = IF @ = "created" THEN "run" ELSE @]
  /\ cpc' = [cpc EXCEPT ![c] = "idle"]
  /\ UNCHANGED <<hsVars, refVars, devVars, inVars, ls, plength, payload, index, parsed,
                 nopens, val, hunted>>

(***************************************************************************)
(* The other caller-side operations.                                       *)
(***************************************************************************)
\* lines 279-281
SerialClose(c) ==
  /\ cpc[c] = "idle"
  /\ dongle # 0
  /\ is_open[dongle]
  /\ is_open' = [is_open EXCEPT ![dongle] = FALSE]
  /\ UNCHANGED <<hsVars, refVars, rtscts, lastwrite, ndongles, inVars, lVars, cVars, napplied>>

HexValue(ch) == (CHOOSE i \in 1..16 : HexDigits[i] = ch) - 1

\* bytes.fromhex(), of a string of an even number of hex digits
RECURSIVE FromHex(_)
FromHex(str) ==
  IF Len(str) < 2 THEN << >>
  ELSE <<HexValue(str[1]) * 16 + HexValue(str[2])>> \o FromHex(SubSeq(str, 3, Len(str)))

\* self.dongle.write(bytes) on the caller's thread: it raises, and writes
\* nothing, when there is no dongle or the port is closed.
CanWrite == dongle # 0 /\ is_open[dongle]

\* The ids a caller passes to connect: none, or a hex string.
ConnectIds == {NoneId, <<"a", "b", "c", "d">>}

\* lines 242-257.  `if headset_id:` is false for None and for ''.
Connect(c, id) ==
  /\ cpc[c] = "idle"
  /\ LET given == id # NoneId /\ id # << >>
         used == IF given THEN id ELSE headset_id
     IN  /\ headset_id' = IF given THEN id ELSE headset_id
         /\ lastwrite' =
              IF ~CanWrite THEN lastwrite
              ELSE IF used = NoneId \/ used = << >> THEN <<AUTOCONNECT>>
              ELSE <<CONNECT>> \o FromHex(used)
  /\ UNCHANGED <<poor_signal, attention, meditation, blink, raw_value, status, calls,
                 refVars, is_open, rtscts, ndongles, inVars, lVars, cVars, napplied>>

\* lines 259-261
Autoconnect(c) ==
  /\ cpc[c] = "idle"
  /\ CanWrite
  /\ lastwrite' = <<AUTOCONNECT>>
  /\ UNCHANGED <<hsVars, refVars, is_open, rtscts, ndongles, inVars, lVars, cVars, napplied>>

\* lines 263-265
Disconnect(c) ==
  /\ cpc[c] = "idle"
  /\ CanWrite
  /\ lastwrite' = <<DISCONNECT>>
  /\ UNCHANGED <<hsVars, refVars, is_open, rtscts, ndongles, inVars, lVars, cVars, napplied>>

(***************************************************************************)
(* What the device sends in Spec: one packet, or a packet that stops short *)
(* and leaves the listener inside the read of its payload.                 *)
(***************************************************************************)
DeviceScripts ==
  { [stream |-> Packet(<<POOR_SIGNAL, 0>>), packets |-> <<<<POOR_SIGNAL, 0>>>>],
    [stream |-> <<SYNC, SYNC, 2, POOR_SIGNAL>>, packets |-> << >>] }

(***************************************************************************)
(* Spec: a headset constructed with or without open_serial, caller threads *)
(* that use it concurrently, its listener threads and its device.          *)
(***************************************************************************)
InitClosed ==
  /\ InitHeadset
  /\ dongle = 0
  /\ listener = 0
  /\ is_open = [d \in DongleIds |-> FALSE]
  /\ ndongles = 0
  /\ lpc = [l \in ListenerIds |-> "none"]
  /\ nopens = 0

Init ==
  /\ InitOpened \/ InitClosed
  /\ \E in \in DeviceScripts : stream = in.stream /\ packets = in.packets

Next ==
  \/ \E c \in Callers :
       \/ SerialOpenCall(c)
       \/ SerialOpenTestDongle(c)
       \/ SerialOpenNewDongle(c)
       \/ SerialOpenTestListener(c)
       \/ SerialOpenNewListener(c)
       \/ SerialOpenStart(c)
       \/ SerialClose(c)
       \/ Autoconnect(c)
       \/ Disconnect(c)
       \/ \E id \in ConnectIds : Connect(c, id)
  \/ \E l \in ListenerIds : Listen(l) \/ ReadClosed(l) \/ ReadError(l)

Spec == Init /\ [][Next]_vars


(***************************************************************************)
(* Vocabulary of the properties.                                           *)
(***************************************************************************)
\* How many bytes the read a listener is inside waits for.
NeedBytes(l) == IF lpc[l] = "payload" THEN plength[l] ELSE 1

\* The listener is inside a read that the bytes sent so far cannot satisfy.
Blocked(l) == lpc[l] \in ReadPcs /\ Len(stream) < NeedBytes(l)

\* The listener has done all it will ever do with the stream.
Finished(l) == Blocked(l) \/ lpc[l] \in {"stopped", "crashed"}

\* p occurs in log, and q after it.
InOrder(log, p, q) ==
  \E i \in 1..Len(log) : \E j \in 1..Len(log) : i < j /\ log[i] = p /\ log[j] = q

\* The listener is about to parse the data row at index[l] of its payload.
AtRow(l) == lpc[l] = "parse" /\ index[l] < Len(payload[l])

\* The code byte of the row at index, and the position after it.
RowHead(p, i) == ExcodeLoop(p, At(p, i), i + 1, 0)

\* The row at index is a multi-byte row with code c whose vlength byte is there.
MultiRowAt(p, i, c) == RowHead(p, i).code = c /\ c >= 128 /\ RowHead(p, i).index < Len(p)

\* Its declared vlength, the bytes it has, and whether all vlength bytes are there.
RowVlength(p, i) == At(p, RowHead(p, i).index)
RowBytes(p, i) == Slice(p, RowHead(p, i).index + 1, RowHead(p, i).index + 1 + RowVlength(p, i))
RowComplete(p, i) == RowHead(p, i).index + 1 + RowVlength(p, i) <= Len(p)

\* The step invokes the handlers `name` once, and no others.
Fires(name, level, id) ==
  calls' = Append(calls, [handler |-> name, level |-> level, id |-> id])

FiresNothing == calls' = calls

\* Some read of parse_payload finds too few bytes left in p, from index i on:
\* a code, value or vlength byte is missing, the value bytes of a multi-byte
\* row are not all there, or a RAW_VALUE row has fewer than 2 value bytes.
RECURSIVE TruncatedFrom(_, _)
TruncatedFrom(p, i) ==
  IF i >= Len(p) THEN FALSE
  ELSE LET h == RowHead(p, i)
       IN  IF h.index >= Len(p) THEN TRUE
           ELSE IF h.code < 128 THEN TruncatedFrom(p, h.index + 1)
           ELSE \/ ~RowComplete(p, i)
                \/ h.code = RAW_VALUE /\ Len(RowBytes(p, i)) < 2
                \/ TruncatedFrom(p, h.index + 1 + RowVlength(p, i))

Truncated(p) == TruncatedFrom(p, 0)

(***************************************************************************)
(* C1.  Resynchronisation: when the stream is a well-formed packet, then   *)
(* any garbage bytes, then a second well-formed packet, the listener loop  *)
(* passes the payloads of both packets to parse_payload.  Stated of the    *)
(* state in which the listener has consumed all it can of the stream.      *)
(***************************************************************************)
C1_BothPacketsParsed ==
  (Len(packets) = 2 /\ Finished(1)) => InOrder(parsed, packets[1], packets[2])

(***************************************************************************)
(* C2.  From a new headset (poor_signal = 255) the POOR_SIGNAL rows        *)
(* 0,0,5,5,0 invoke the poor-signal handlers on the third row only and the *)
(* good-signal handlers on the fifth row only.                             *)
(***************************************************************************)
FiveRows ==
  Flatten(<<<<POOR_SIGNAL, 0>>, <<POOR_SIGNAL, 0>>, <<POOR_SIGNAL, 5>>,
            <<POOR_SIGNAL, 5>>, <<POOR_SIGNAL, 0>>>>)

\* The listener is about to parse a row of FiveRows, the first payload it got.
AtFiveRows == AtRow(1) /\ payload[1] = FiveRows /\ parsed = <<FiveRows>>

C2_OncePoorOnceGood ==
  [][AtFiveRows =>
       IF index[1] = 4 THEN Fires("poor_signal", 5, NoId)
       ELSE IF index[1] = 8 THEN Fires("good_signal", 0, NoId)
       ELSE FiresNothing]_vars

(***************************************************************************)
(* C2, amended.  The rows 0,0,5,5,0 invoke the poor-signal handlers on the *)
(* third row only, and the good-signal handlers on the first row (255 to   *)
(* 0) and on the fifth row (5 to 0), and on no other row.                  *)
(***************************************************************************)
C2_PoorOnceGoodTwice ==
  [][AtFiveRows =>
       IF index[1] = 4 THEN Fires("poor_signal", 5, NoId)
       ELSE IF index[1] \in {0, 8} THEN Fires("good_signal", 0, NoId)
       ELSE FiresNothing]_vars

C2_Witness ==
  /\ parsed = <<FiveRows>>
  /\ lpc[1] = "read1"
  /\ [k \in 1..Len(calls) |-> calls[k].handler] = <<"good_signal", "poor_signal", "good_signal">>

(***************************************************************************)
(* C3.  A truncated payload is never fatal: parse_payload returns normally *)
(* on it, and the listener goes on to frame and decode the next packet.    *)
(***************************************************************************)
C3_TruncatedNeverFatal ==
  /\ \A l \in ListenerIds : lpc[l] = "crashed" => ~Truncated(payload[l])
  /\ (Len(packets) = 2 /\ Truncated(packets[1]) /\ packets[2] = Probe /\ Finished(1))
       => parsed = packets

(***************************************************************************)
(* C4.  A multi-byte row whose declared vlength exceeds the bytes left in  *)
(* the payload changes no headset field and invokes no handler.            *)
(***************************************************************************)
C4_TruncatedRowNoEffect ==
  [][(/\ AtRow(1)
      /\ RowHead(payload[1], index[1]).code >= 128
      /\ RowHead(payload[1], index[1]).index < Len(payload[1])
      /\ ~RowComplete(payload[1], index[1]))
       => UNCHANGED hsVars]_vars


(***************************************************************************)
(* C5.  Idempotent start: in every reachable state, also when serial_open  *)
(* is called again, one call after another or from two caller threads at   *)
(* once, at most one DongleListener thread is alive.                       *)
(***************************************************************************)
C5_AtMostOneListener == Cardinality({l \in ListenerIds : IsAlive(l)}) <= 1

(***************************************************************************)
(* C6.  STANDBY_SCAN is edge-triggered on status.  A row whose first value *)
(* byte is non-zero sets status to scanning and invokes the scanning       *)
(* handlers iff status was not scanning before the row; a row whose value  *)
(* is zero or empty sets status to standby and invokes the standby         *)
(* handlers iff status was not standby.  From the initial status the       *)
(* values 1,1,0,1 fire scanning on rows 1 and 4 and standby on row 3.      *)
(***************************************************************************)
FourRows ==
  Flatten(<<<<STANDBY_SCAN, 1, 1>>, <<STANDBY_SCAN, 1, 1>>, <<STANDBY_SCAN, 1, 0>>,
            <<STANDBY_SCAN, 1, 1>>>>)

AtFourRows == AtRow(1) /\ payload[1] = FourRows /\ parsed = <<FourRows>>

C6_StandbyScanEdge ==
  [][/\ (AtRow(1) /\ MultiRowAt(payload[1], index[1], STANDBY_SCAN)) =>
          LET v == RowBytes(payload[1], index[1])
          IN  IF v # << >> /\ v[1] # 0
                THEN /\ status' = STATUS_SCANNING
                     /\ IF status # STATUS_SCANNING
                          THEN Fires("scanning", NoLevel, NoId) ELSE FiresNothing
                ELSE /\ status' = STATUS_STANDBY
                     /\ IF status # STATUS_STANDBY
                          THEN Fires("standby", NoLevel, NoId) ELSE FiresNothing
     /\ AtFourRows =>
          IF index[1] \in {0, 9} THEN Fires("scanning", NoLevel, NoId)
          ELSE IF index[1] = 6 THEN Fires("standby", NoLevel, NoId)
          ELSE FiresNothing]_vars

C6_Witness ==
  /\ parsed = <<FourRows>>
  /\ lpc[1] = "read1"
  /\ status = STATUS_SCANNING
  /\ [k \in 1..Len(calls) |-> calls[k].handler] = <<"scanning", "standby", "scanning">>

(***************************************************************************)
(* C7.  HEADSET_CONNECTED is edge-triggered.  Every complete row sets      *)
(* status to connected and headset_id to the hex encoding of its value,    *)
(* and invokes the headset-connected handlers iff status was not connected *)
(* before the row: of two such rows in a row, only the first invokes them. *)
(***************************************************************************)
\* str is the hex encoding of the bytes v: two digits a byte, high digit first.
IsHexOf(str, v) ==
  /\ Len(str) = 2 * Len(v)
  /\ \A k \in 1..Len(str) : \E d \in 1..16 : HexDigits[d] = str[k]
  /\ \A k \in 1..Len(v) : HexValue(str[2 * k - 1]) * 16 + HexValue(str[2 * k]) = v[k]

C7_ConnectedEdge ==
  [][(/\ AtRow(1)
      /\ MultiRowAt(payload[1], index[1], HEADSET_CONNECTED)
      /\ RowComplete(payload[1], index[1]))
       => /\ status' = STATUS_CONNECTED
          /\ IsHexOf(headset_id', RowBytes(payload[1], index[1]))
          /\ IF status # STATUS_CONNECTED
               THEN Fires("headset_connected", NoLevel, NoId) ELSE FiresNothing]_vars

C7_Witness ==
  /\ parsed = <<<<HEADSET_CONNECTED, 2, 18, 52, HEADSET_CONNECTED, 2, 171, 205>>>>
  /\ lpc[1] = "read1"
  /\ status = STATUS_CONNECTED
  /\ headset_id = <<"a", "b", "c", "d">>
  /\ [k \in 1..Len(calls) |-> calls[k].handler] = <<"headset_connected">>

(***************************************************************************)
(* SpecRaw: the device sends one packet holding one RAW_VALUE row, of any  *)
(* two value bytes.                                                        *)
(***************************************************************************)
InitRaw ==
  /\ InitOpened
  /\ \E v0 \in 0..255 : \E v1 \in 0..255 :
       /\ stream = Packet(<<RAW_VALUE, 2, v0, v1>>)
       /\ packets = <<<<RAW_VALUE, 2, v0, v1>>>>

SpecRaw == InitRaw /\ [][NextStream]_vars

(***************************************************************************)
(* C8.  After a RAW_VALUE row with value bytes v0, v1, raw_value is the    *)
(* signed 16-bit big-endian reading of (v0, v1): v0*256+v1 when that is    *)
(* below 32768 and v0*256+v1-65536 otherwise, so it lies in -32768..32767; *)
(* (127,255) gives 32767, (128,0) gives -32768 and (0,1) gives 1.          *)
(***************************************************************************)
C8_RawValue ==
  (lpc[1] = "read1" /\ parsed # << >>) =>
    LET v0 == parsed[1][3]
        v1 == parsed[1][4]
        u == v0 * 256 + v1
    IN  /\ raw_value \in -32768..32767
        /\ (raw_value - u) % 65536 = 0
        /\ u < 32768 => raw_value = u
        /\ u >= 32768 => raw_value = u - 65536
        /\ (v0 = 127 /\ v1 = 255) => raw_value = 32767
        /\ (v0 = 128 /\ v1 = 0) => raw_value = -32768
        /\ (v0 = 0 /\ v1 = 1) => raw_value = 1
        /\ calls = <<[handler |-> "raw_value", level |-> raw_value, id |-> NoId]>>

C8_Witness ==
  /\ parsed = <<<<RAW_VALUE, 2, 128, 0>>>>
  /\ lpc[1] = "read1"
  /\ raw_value = -32768

(***************************************************************************)
(* C9.  Length framing: after the two SYNC bytes the loop reads length     *)
(* bytes while the byte read is 170; when the first other length byte      *)
(* exceeds 170, no payload is read or parsed and the loop hunts for sync   *)
(* again; so every payload parsed was read with a length in 0..169.        *)
(***************************************************************************)
C9_LengthFraming ==
  [][/\ lpc[1] = "plength" =>
          /\ stream' = Tail(stream)
          /\ Head(stream) = 170 => lpc'[1] = "plength"
          /\ Head(stream) > 170 =>
               lpc'[1] = "read1" /\ UNCHANGED <<payload, parsed, hsVars>>
          /\ Head(stream) < 170 => lpc'[1] = "payload" /\ plength'[1] = Head(stream)
     /\ lpc'[1] \in {"payload", "chksum", "parse"} => plength'[1] \in 0..169
     /\ lpc'[1] \in {"chksum", "parse"} => Len(payload'[1]) = plength'[1]
     /\ parsed' # parsed =>
          parsed' = Append(parsed, payload[1]) /\ Len(payload[1]) \in 0..169]_vars

\* A length byte of 170 was read and passed over, and the length 169 is next.
C9_Witness ==
  /\ lpc[1] = "plength"
  /\ plength[1] = 170
  /\ stream # << >>
  /\ Head(stream) = 169

(***************************************************************************)
(* C10.  Checksum leniency: whatever the checksum byte of a framed packet, *)
(* its payload is passed to parse_payload, and the reads consume exactly   *)
(* the payload's length bytes and the one checksum byte.                   *)
(***************************************************************************)
C10_ChecksumLenient ==
  [][/\ lpc[1] = "payload" =>
          /\ payload'[1] = SubSeq(stream, 1, plength[1])
          /\ stream = payload'[1] \o stream'
          /\ lpc'[1] = "chksum"
     /\ lpc[1] = "chksum" =>
          /\ stream' = Tail(stream)
          /\ parsed' = Append(parsed, payload[1])
          /\ lpc'[1] = "parse"
          /\ index'[1] = 0]_vars

\* A payload framed with a checksum byte that is not its checksum, by the
\* protocol's sum or by the code's, is being parsed.
C10_Witness ==
  /\ packets = <<Probe>>
  /\ parsed = <<<<MEDITATION, 7>>>>
  /\ lpc[1] = "parse"
  /\ stream = Packet(Probe)

(***************************************************************************)
(* C11.  For every framed payload the checksum value run computes is       *)
(* (~(sum of all payload bytes mod 256)) mod 256; for the payload          *)
(* [0x04, 0x32] it is 0xC9.                                                *)
(***************************************************************************)
C11_ChecksumOfAllBytes ==
  \A l \in ListenerIds :
    lpc[l] = "parse" =>
      /\ val[l] = (0 - (SumSeq(payload[l]) % 256) - 1) % 256
      /\ payload[l] = <<ATTENTION, 50>> => val[l] = 201

(***************************************************************************)
(* C12.  Level-triggered metrics: every complete ATTENTION, MEDITATION or  *)
(* BLINK row stores its value byte in its field and invokes the handlers   *)
(* of its kind once with that value, also when the value is the one the    *)
(* field had; no other step changes these fields or invokes these          *)
(* handlers, so each handler kind is invoked as often as there were rows   *)
(* of its kind.                                                            *)
(***************************************************************************)
\* The row at index is a single-byte row with code c whose value byte is there.
SingleRowAt(p, i, c) == RowHead(p, i).code = c /\ c < 128 /\ RowHead(p, i).index < Len(p)

RowValue(p, i) == At(p, RowHead(p, i).index)

\* How often the handlers `name` were invoked.
CountCalls(log, name) == Cardinality({k \in 1..Len(log) : log[k].handler = name})

C12_LevelTriggered ==
  [][LET p == payload[1]
         i == index[1]
         at(c) == AtRow(1) /\ SingleRowAt(p, i, c)
     IN  /\ IF at(ATTENTION)
              THEN attention' = RowValue(p, i) /\ Fires("attention", RowValue(p, i), NoId)
              ELSE /\ attention' = attention
                   /\ CountCalls(calls', "attention") = CountCalls(calls, "attention")
         /\ IF at(MEDITATION)
              THEN meditation' = RowValue(p, i) /\ Fires("meditation", RowValue(p, i), NoId)
              ELSE /\ meditation' = meditation
                   /\ CountCalls(calls', "meditation") = CountCalls(calls, "meditation")
         /\ IF at(BLINK)
              THEN blink' = RowValue(p, i) /\ Fires("blink", RowValue(p, i), NoId)
              ELSE /\ blink' = blink
                   /\ CountCalls(calls', "blink") = CountCalls(calls, "blink")]_vars

\* Two ATTENTION rows with the same value were parsed, and the handlers ran on
\* both.
C12_Witness ==
  /\ parsed = <<<<ATTENTION, 50, ATTENTION, 50>>>>
  /\ lpc[1] = "read1"
  /\ attention = 50
  /\ calls = <<[handler |-> "attention", level |-> 50, id |-> NoId],
               [handler |-> "attention", level |-> 50, id |-> NoId]>>

(***************************************************************************)
(* C13.  Poor-signal edge rule: a POOR_SIGNAL row with value v sets        *)
(* poor_signal to v; it invokes the poor-signal handlers iff v > 0 and     *)
(* poor_signal was 0, the good-signal handlers iff v = 0 and poor_signal   *)
(* was > 0, and nothing otherwise (a change between two non-zero levels    *)
(* invokes nothing).                                                       *)
(***************************************************************************)
C13_PoorSignalEdge ==
  [][(AtRow(1) /\ SingleRowAt(payload[1], index[1], POOR_SIGNAL)) =>
       LET v == RowValue(payload[1], index[1])
       IN  /\ poor_signal' = v
           /\ IF v > 0 /\ poor_signal = 0 THEN Fires("poor_signal", v, NoId)
              ELSE IF v = 0 /\ poor_signal > 0 THEN Fires("good_signal", v, NoId)
              ELSE FiresNothing]_vars

\* The rows 0, 5, 200 were parsed: the third, a change between two non-zero
\* levels, invoked nothing.
C13_Witness ==
  /\ parsed = <<<<POOR_SIGNAL, 0, POOR_SIGNAL, 5, POOR_SIGNAL, 200>>>>
  /\ lpc[1] = "read1"
  /\ poor_signal = 200
  /\ calls = <<[handler |-> "good_signal", level |-> 0, id |-> NoId],
               [handler |-> "poor_signal", level |-> 5, id |-> NoId]>>

(***************************************************************************)
(* C14.  Status frame: status changes only in the step that dispatches a   *)
(* STANDBY_SCAN or HEADSET_CONNECTED row; rows of every other code leave   *)
(* it unchanged, and a row with an unrecognised code changes no headset    *)
(* field and invokes no handler.                                           *)
(***************************************************************************)
RecognisedCodes ==
  {POOR_SIGNAL, ATTENTION, MEDITATION, BLINK, RAW_VALUE, HEADSET_CONNECTED,
   HEADSET_NOT_FOUND, HEADSET_DISCONNECTED, REQUEST_DENIED, STANDBY_SCAN}

C14_StatusFrame ==
  [][/\ status' # status =>
          /\ AtRow(1)
          /\ RowHead(payload[1], index[1]).code \in {STANDBY_SCAN, HEADSET_CONNECTED}
     /\ (AtRow(1) /\ RowHead(payload[1], index[1]).code \notin RecognisedCodes) =>
          UNCHANGED hsVars]_vars

\* A HEADSET_CONNECTED row and then a row with the unrecognised code 200 were
\* parsed: the status and the invocations are those of the first row.
C14_Witness ==
  /\ parsed = <<<<HEADSET_CONNECTED, 2, 18, 52, 200, 1, 9>>>>
  /\ lpc[1] = "read1"
  /\ status = STATUS_CONNECTED
  /\ calls = <<[handler |-> "headset_connected", level |-> NoLevel, id |-> NoId]>>

(***************************************************************************)
(* C15.  Start ordering: the listener toggles rtscts exactly twice, only   *)
(* after both toggles writes DISCONNECT, and only after that reads for the *)
(* first time.                                                             *)
(***************************************************************************)
C15_TogglesWriteRead ==
  [][/\ napplied' # napplied =>
          /\ lastwrite = << >>
          /\ napplied'[dongle] <= 2
          /\ stream' = stream
     /\ lastwrite' # lastwrite =>
          /\ lastwrite' = <<DISCONNECT>>
          /\ napplied[dongle] = 2
          /\ rtscts[dongle] = FALSE
          /\ stream' = stream
     /\ stream' # stream =>
          /\ lastwrite = <<DISCONNECT>>
          /\ napplied[dongle] = 2]_vars

(***************************************************************************)
(* C15, amended.  The listener first writes DISCONNECT, then toggles       *)
(* rtscts exactly twice, which leaves it at its original value, and only   *)
(* after the second toggle reads for the first time.                       *)
(***************************************************************************)
C15_WriteTogglesRead ==
  [][/\ lastwrite' # lastwrite =>
          /\ lastwrite' = <<DISCONNECT>>
          /\ napplied[dongle] = 0
          /\ stream' = stream
     /\ napplied' # napplied =>
          /\ lastwrite = <<DISCONNECT>>
          /\ napplied'[dongle] = napplied[dongle] + 1
          /\ napplied'[dongle] <= 2
          /\ rtscts'[dongle] = ~rtscts[dongle]
          /\ stream' = stream
     /\ stream' # stream =>
          /\ lastwrite = <<DISCONNECT>>
          /\ napplied[dongle] = 2
          /\ rtscts[dongle] = FALSE]_vars

\* The listener has made its first read, after the write and the two toggles.
C15_Witness ==
  /\ lpc[1] = "read2"
  /\ hunted[1] = <<SYNC>>
  /\ parsed = << >>
  /\ lastwrite = <<DISCONNECT>>
  /\ napplied[dongle] = 2
  /\ rtscts[dongle] = FALSE

(***************************************************************************)
(* SpecReopen: one caller thread that opens and closes the port, the       *)
(* listener threads, and a transport that fails only by being closed.      *)
(***************************************************************************)
ReopenCallers == {1}

NextReopen ==
  \/ \E c \in ReopenCallers :
       \/ SerialOpenCall(c)
       \/ SerialOpenTestDongle(c)
       \/ SerialOpenNewDongle(c)
       \/ SerialOpenTestListener(c)
       \/ SerialOpenNewListener(c)
       \/ SerialOpenStart(c)
       \/ SerialClose(c)
  \/ \E l \in ListenerIds : Listen(l) \/ ReadClosed(l)

SpecReopen == Init /\ [][NextReopen]_vars

(***************************************************************************)
(* SpecFailure: SpecReopen with a transport that also fails under an open  *)
(* port, and a caller that calls connect.                                  *)
(***************************************************************************)
NextFailure ==
  \/ NextReopen
  \/ \E c \in ReopenCallers : \E id \in ConnectIds : Connect(c, id)
  \/ \E l \in ListenerIds : ReadError(l)

SpecFailure == Init /\ [][NextFailure]_vars

(***************************************************************************)
(* C16.  Transport failure stops the loop: a read that fails (the source   *)
(* was closed, or an I/O error) takes the listener to STOPPED; a stopped   *)
(* listener stays stopped, and while no listener is alive no byte is read, *)
(* no headset field is written by a listener and no handler is invoked; a  *)
(* listener comes alive only in the start() of a serial_open call.         *)
(***************************************************************************)
C16_FailureStops ==
  [][/\ \A l \in ListenerIds :
          /\ (lpc[l] \in ReadPcs /\ ~is_open[ls[l]] /\ lpc'[l] # lpc[l]) =>
               lpc'[l] = "stopped"
          /\ (lpc[l] \in ReadPcs /\ lpc'[l] \notin ReadPcs \cup {"parse"}) =>
               /\ lpc'[l] = "stopped"
               /\ UNCHANGED <<stream, hsVars>>
          /\ lpc[l] = "stopped" => lpc'[l] = "stopped"
          /\ (~IsAlive(l) /\ IsAlive(l)') =>
               \E c \in Callers : cpc[c] = "so_start" /\ cpc'[c] = "idle"
     /\ (\A l \in ListenerIds : ~IsAlive(l)) =>
          /\ UNCHANGED <<stream, poor_signal, attention, meditation, blink, raw_value,
                         status, calls>>
          /\ headset_id' # headset_id => UNCHANGED lVars]_vars

\* The listener stopped on a read of the closed port, with bytes of the device
\* left unread and nothing parsed.
C16_Witness ==
  /\ lpc[1] = "stopped"
  /\ ~is_open[1]
  /\ stream = Packet(<<POOR_SIGNAL, 0>>)
  /\ parsed = << >>
  /\ poor_signal = 255
  /\ \A c \in Callers : cpc[c] = "idle"

(***************************************************************************)
(* C17.  Single writer: while a listener is running, only the listener     *)
(* thread writes headset_id, poor_signal, attention, meditation, blink,    *)
(* raw_value and status: a step of a caller thread (connect, autoconnect,  *)
(* disconnect, serial_open, serial_close) writes none of them.             *)
(***************************************************************************)
\* Every step of a listener thread changes one of its locals or reads bytes.
ListenerStep == lVars' # lVars \/ stream' # stream

C17_SingleWriter ==
  [][((\E l \in ListenerIds : IsAlive(l)) /\ ~ListenerStep) =>
       UNCHANGED <<headset_id, poor_signal, attention, meditation, blink, raw_value,
                   status>>]_vars

(***************************************************************************)
(* C18.  Sync hunting locks onto the first adjacent SYNC pair: of the      *)
(* bytes read since the listener began to look for the sync marker, the    *)
(* two it accepts as the marker are the first two adjacent 0xAA bytes, and *)
(* the bytes it rejected hold no adjacent pair and do not end in a 0xAA    *)
(* that the next byte could pair with.                                     *)
(***************************************************************************)
HasSyncPair(s) == \E k \in 1..(Len(s) - 1) : s[k] = SYNC /\ s[k + 1] = SYNC

C18_FirstSyncPair ==
  LET h == hunted[1]
      n == Len(h)
  IN  /\ lpc[1] = "read1" => ~HasSyncPair(h) /\ (n > 0 => h[n] # SYNC)
      /\ lpc[1] = "read2" => ~HasSyncPair(h) /\ n > 0 /\ h[n] = SYNC
      /\ (lpc[1] = "plength" /\ h # << >>) =>
           /\ n >= 2
           /\ h[n - 1] = SYNC
           /\ h[n] = SYNC
           /\ ~HasSyncPair(SubSeq(h, 1, n - 1))

\* After a first packet the listener read a lone 0xAA and the byte after it,
\* and then accepted the pair that follows.
C18_Witness ==
  /\ lpc[1] = "plength"
  /\ hunted[1] = <<SYNC, 0, SYNC, SYNC>>
  /\ Len(parsed) = 1

(***************************************************************************)
(* C19.  Every time the headset reconnects the headset-connected handlers  *)
(* run: a HEADSET_CONNECTED row that follows a HEADSET_DISCONNECTED row,   *)
(* with nothing or only STANDBY_SCAN rows in between, invokes them.        *)
(***************************************************************************)
\* The index of the row after the row at i.
NextRow(p, i) ==
  IF RowHead(p, i).code < 128 THEN RowHead(p, i).index + 1
  ELSE RowHead(p, i).index + 1 + RowVlength(p, i)

\* The rows of p from index j on lead to index i, and their codes are in codes.
RECURSIVE RowsFrom(_, _, _, _)
RowsFrom(p, j, i, codes) ==
  IF j = i THEN TRUE
  ELSE IF j > i THEN FALSE
  ELSE /\ RowHead(p, j).index < Len(p)
       /\ RowHead(p, j).code \in codes
       /\ RowsFrom(p, NextRow(p, j), i, codes)

\* The row at index i follows a HEADSET_DISCONNECTED row, with only
\* STANDBY_SCAN rows between the two.
FollowsDisconnected(p, i) ==
  \E j \in 0..(i - 1) :
    /\ RowsFrom(p, 0, j, 0..255)
    /\ MultiRowAt(p, j, HEADSET_DISCONNECTED)
    /\ RowsFrom(p, NextRow(p, j), i, {STANDBY_SCAN})

C19_ReconnectFires ==
  [][(/\ AtRow(1)
      /\ MultiRowAt(payload[1], index[1], HEADSET_CONNECTED)
      /\ RowComplete(payload[1], index[1])
      /\ FollowsDisconnected(payload[1], index[1]))
       => Fires("headset_connected", NoLevel, NoId)]_vars

(***************************************************************************)
(* C20.  Restart after close: once serial_open has returned after a        *)
(* serial_close, a listener thread is alive that reads, or is about to     *)
(* read, the dongle that is open now; the session is never left with an    *)
(* open dongle and no listener to read it.  (A listener comes alive only   *)
(* inside serial_open, so none can come later.)                            *)
(***************************************************************************)
C20_ReopenedDongleHasListener ==
  (/\ \A c \in Callers : cpc[c] = "idle"
   /\ dongle # 0
   /\ is_open[dongle]
   /\ \E d \in DongleIds : d < dongle /\ ~is_open[d])
    => \E l \in ListenerIds : IsAlive(l) /\ (lpc[l] = "run" \/ ls[l] = dongle)

=============================================================================
